---- MODULE Spec2Model ----
(***************************************************************************)
(* Model of the to-do service of src/main.py: five FastAPI handlers over   *)
(* one SQLite table, each handler running inside the get_db_connection     *)
(* context manager on a connection of its own.  Handlers of concurrent     *)
(* requests interleave at the granularity of single SQL statements.        *)
(*                                                                         *)
(* SQLite is modelled by what the handlers can observe of it:              *)
(*   - tasks/seq      the committed table and its sqlite_sequence counter  *)
(*   - writer         the connection holding the write transaction (the    *)
(*                    sqlite3 module opens one implicitly before the first *)
(*                    INSERT/UPDATE/DELETE of a connection; SELECTs before *)
(*                    it run in autocommit mode)                           *)
(*   - wtasks/wseq    the writer's uncommitted view                        *)
(* The created_at column is written by its DEFAULT and read by no handler, *)
(* so it is left out.  An Optional[str] is a sequence of length 0 (None)   *)
(* or 1, and so is the result of fetchone().                               *)
(***************************************************************************)
EXTENDS Integers, Sequences, FiniteSets, TLC

\* ---------------------------------------------------------------- bounds
NumClients == 2     \* requests that can be in flight at once
MaxId == 2          \* ids the store hands out before creates stop
MaxRequests == 3    \* requests served in one behaviour

Clients == 1..NumClients
Ids == 1..(MaxId + 1)          \* path parameters; MaxId + 1 is never created
NoWriter == 0

None == <<>>
Some(x) == <<x>>

Statuses == {"Pending", "Completed"}

\* JSON bodies of POST /api/tasks: a title and nothing else (the title being
\* the empty string), every field given, and a body without a title.
Bodies ==
  { [title |-> Some(""), description |-> None, due_date |-> None, status |-> None],
    [title |-> Some("Test Task"), description |-> Some("Testing Description"),
     due_date |-> Some("2023-12-31"), status |-> Some("Completed")],
    [title |-> None, description |-> Some("Testing Description"),
     due_date |-> None, status |-> None] }

VARIABLES
  tasks,     \* committed rows: id -> [title, description, status, due_date]
  seq,       \* committed sqlite_sequence.seq of table tasks
  writer,    \* connection holding the write transaction, or NoWriter
  wtasks,    \* the writer's view of the rows
  wseq,      \* the writer's view of sqlite_sequence.seq
  open,      \* connections each worker's handler holds open
  pc,        \* each client's position in its handler
  req,       \* each client's request
  row,       \* each handler's local row / lastrowid
  resp,      \* each client's response (being built while in flight)
  nreq,      \* requests accepted so far
  issued,    \* ids returned by successful creates
  removed    \* ids for which a DELETE answered success

vars == <<tasks, seq, writer, wtasks, wseq, open, pc, req, row, resp, nreq, issued, removed>>

\* ------------------------------------------------------------- helpers
Max(S) == CHOOSE m \in S : \A x \in S : x <= m

NoReq == [op |-> "none", task_id |-> 0, body |-> None, status |-> None]
NoResp == [code |-> 0, detail |-> "", fault |-> "", task |-> None, list |-> <<>>]

\* TaskModel: title is required; the other fields default.
TaskModelValid(body) == body.title # None

\* (mutant) the status of the body is dropped for the default
TaskModel_default_status(body) ==
  [title |-> body.title[1],
   description |-> body.description,
   due_date |-> body.due_date,
   status |-> "Pending"]

TaskModel(body) ==
  [title |-> body.title[1],
   description |-> body.description,
   due_date |-> body.due_date,
   status |-> IF body.status = None THEN "Pending" ELSE body.status[1]]

\* The dict every handler builds from a row.
TaskResponse(id, r) ==
  [id |-> id, title |-> r.title, description |-> r.description,
   due_date |-> r.due_date, status |-> r.status]

\* What connection c reads: its own uncommitted rows inside its
\* transaction, the committed rows otherwise.
View(c) == IF writer = c THEN wtasks ELSE tasks
ViewSeq(c) == IF writer = c THEN wseq ELSE seq

\* SELECT * FROM tasks WHERE id = ? ; fetchone()
FetchOne(c, id) == IF id \in DOMAIN View(c) THEN Some(TaskResponse(id, View(c)[id])) ELSE None

\* (mutant) INTEGER PRIMARY KEY without AUTOINCREMENT: one more than the
\* largest id the table holds now.
NextId_rowid(c) == Max(DOMAIN View(c) \cup {0}) + 1

\* INTEGER PRIMARY KEY AUTOINCREMENT: one more than the largest id the
\* table holds or has ever held.
NextId(c) == Max(DOMAIN View(c) \cup {ViewSeq(c)}) + 1

\* (mutant) ORDER BY id, ascending
RECURSIVE OrderByIdAsc(_)
OrderByIdAsc(S) ==
  IF S = {} THEN <<>>
  ELSE LET m == Max(S) IN OrderByIdAsc(S \ {m}) \o <<m>>

\* ORDER BY id DESC
RECURSIVE OrderByIdDesc(_)
OrderByIdDesc(S) ==
  IF S = {} THEN <<>>
  ELSE LET m == Max(S) IN <<m>> \o OrderByIdDesc(S \ {m})

Init ==
  /\ tasks = <<>>
  /\ seq = 0
  /\ writer = NoWriter
  /\ wtasks = <<>>
  /\ wseq = 0
  /\ open = [c \in Clients |-> 0]
  /\ pc = [c \in Clients |-> "idle"]
  /\ req = [c \in Clients |-> NoReq]
  /\ row = [c \in Clients |-> None]
  /\ resp = [c \in Clients |-> NoResp]
  /\ nreq = 0
  /\ issued = {}
  /\ removed = {}

\* The server hands a request to the first worker that is free.
FreeWorker(c) == pc[c] = "idle" /\ \A d \in Clients : pc[d] = "idle" => c <= d

\* ------------------------------------------------- get_db_connection
\* sqlite3.connect(DATABASE): the handler enters the with block.
get_db_connection_enter(c, r, first) ==
  /\ FreeWorker(c)
  /\ nreq < MaxRequests
  /\ nreq' = nreq + 1
  /\ open' = [open EXCEPT ![c] = @ + 1]
  /\ req' = [req EXCEPT ![c] = r]
  /\ pc' = [pc EXCEPT ![c] = first]
  /\ UNCHANGED <<tasks, seq, writer, wtasks, wseq, row, resp, issued, removed>>

\* The first INSERT/UPDATE/DELETE of a connection begins its transaction and
\* takes the database's write lock; it waits while another connection
\* holds it.
CanWrite(c) == writer \in {NoWriter, c}

\* The wait for the write lock runs out: sqlite3.OperationalError
\* (database is locked) is raised by cursor.execute.
Busy(c) ==
  /\ pc[c] \in {"insert", "update", "delete"}
  /\ ~CanWrite(c)
  /\ resp' = [resp EXCEPT ![c] = [NoResp EXCEPT !.code = 500, !.fault = "OperationalError"]]
  /\ pc' = [pc EXCEPT ![c] = "rollback"]
  /\ UNCHANGED <<tasks, seq, writer, wtasks, wseq, open, req, row, nreq, issued, removed>>

\* finally: conn.close(); resp[c] goes out as the response and the worker
\* is free again
get_db_connection_close(c) ==
  /\ open' = [open EXCEPT ![c] = @ - 1]
  /\ pc' = [pc EXCEPT ![c] = "idle"]
  /\ req' = [req EXCEPT ![c] = NoReq]
  /\ row' = [row EXCEPT ![c] = None]
  /\ resp' = [resp EXCEPT ![c] = NoResp]

\* (mutant) no conn.commit() before the finally clause: closing the
\* connection drops its pending changes.
get_db_connection_no_commit(c) ==
  /\ pc[c] = "commit"
  /\ wtasks' = IF writer = c THEN tasks ELSE wtasks
  /\ wseq' = IF writer = c THEN seq ELSE wseq
  /\ writer' = IF writer = c THEN NoWriter ELSE writer
  /\ get_db_connection_close(c)
  /\ UNCHANGED <<tasks, seq, nreq, issued, removed>>

\* The with body returned: conn.commit(), then the finally clause.
get_db_connection_commit(c) ==
  /\ pc[c] = "commit"
  /\ tasks' = View(c)
  /\ seq' = ViewSeq(c)
  /\ writer' = IF writer = c THEN NoWriter ELSE writer
  /\ UNCHANGED <<wtasks, wseq>>
  /\ issued' = IF req[c].op = "create" THEN issued \cup {resp[c].task[1].id} ELSE issued
  /\ removed' = IF req[c].op = "delete" THEN removed \cup {req[c].task_id} ELSE removed
  /\ get_db_connection_close(c)
  /\ UNCHANGED nreq

\* The with body raised: conn.rollback(), the exception is re-raised, then
\* the finally clause.
get_db_connection_rollback(c) ==
  /\ pc[c] = "rollback"
  /\ wtasks' = IF writer = c THEN tasks ELSE wtasks
  /\ wseq' = IF writer = c THEN seq ELSE wseq
  /\ writer' = IF writer = c THEN NoWriter ELSE writer
  /\ get_db_connection_close(c)
  /\ UNCHANGED <<tasks, seq, nreq, issued, removed>>

\* raise HTTPException(status_code=404, detail="Task not found")
NotFound == [NoResp EXCEPT !.code = 404, !.detail = "Task not found"]

\* ------------------------------------------------------- create_task
\* A body that TaskModel rejects is answered 422 and never reaches the
\* handler.
create_task_invalid(c, body) ==
  /\ FreeWorker(c)
  /\ nreq < MaxRequests
  /\ ~TaskModelValid(body)
  /\ nreq' = nreq + 1
  /\ UNCHANGED <<tasks, seq, writer, wtasks, wseq, open, pc, req, row, resp, issued, removed>>

\* Creates stop once MaxId ids are spoken for: those handed out (wseq, the
\* newest counter) and those of the creates still to run their INSERT.
CreatesPending == Cardinality({d \in Clients : pc[d] = "insert"})

create_task_connect(c, body) ==
  /\ TaskModelValid(body)
  /\ wseq + CreatesPending < MaxId
  /\ get_db_connection_enter(c, [NoReq EXCEPT !.op = "create", !.body = Some(body)], "insert")

\* INSERT INTO tasks (title, description, status, due_date) VALUES (?,?,?,?)
\* task_id = cursor.lastrowid
create_task_insert(c) ==
  /\ pc[c] = "insert"
  /\ CanWrite(c)
  /\ LET task == TaskModel(req[c].body[1])
         id == NextId(c)
     IN /\ wtasks' = (id :> [title |-> task.title, description |-> task.description,
                             status |-> task.status, due_date |-> task.due_date]) @@ View(c)
        /\ wseq' = id
        /\ row' = [row EXCEPT ![c] = Some(id)]
  /\ writer' = c
  /\ pc' = [pc EXCEPT ![c] = "fetch_created"]
  /\ UNCHANGED <<tasks, seq, open, req, resp, nreq, issued, removed>>

\* SELECT * FROM tasks WHERE id = ? with task_id; return the row's dict
create_task_fetch(c) ==
  /\ pc[c] = "fetch_created"
  /\ resp' = [resp EXCEPT ![c] = [NoResp EXCEPT !.code = 200, !.task = FetchOne(c, row[c][1])]]
  /\ pc' = [pc EXCEPT ![c] = "commit"]
  /\ UNCHANGED <<tasks, seq, writer, wtasks, wseq, open, req, row, nreq, issued, removed>>

\* --------------------------------------------------------- get_tasks
get_tasks_connect(c) == get_db_connection_enter(c, [NoReq EXCEPT !.op = "list"], "select_all")

\* SELECT * FROM tasks ORDER BY id DESC ; fetchall()
get_tasks_select(c) ==
  /\ pc[c] = "select_all"
  /\ LET ids == OrderByIdDesc(DOMAIN View(c))
     IN resp' = [resp EXCEPT ![c] = [NoResp EXCEPT !.code = 200,
                   !.list = [i \in 1..Len(ids) |-> TaskResponse(ids[i], View(c)[ids[i]])]]]
  /\ pc' = [pc EXCEPT ![c] = "commit"]
  /\ UNCHANGED <<tasks, seq, writer, wtasks, wseq, open, req, row, nreq, issued, removed>>

\* ---------------------------------------------------------- get_task
get_task_connect(c, id) == get_db_connection_enter(c, [NoReq EXCEPT !.op = "get", !.task_id = id], "select_one")

get_task_select(c) ==
  /\ pc[c] = "select_one"
  /\ LET task == FetchOne(c, req[c].task_id)
     IN IF task = None
        THEN /\ resp' = [resp EXCEPT ![c] = NotFound]
             /\ pc' = [pc EXCEPT ![c] = "rollback"]
        ELSE /\ resp' = [resp EXCEPT ![c] = [NoResp EXCEPT !.code = 200, !.task = task]]
             /\ pc' = [pc EXCEPT ![c] = "commit"]
  /\ UNCHANGED <<tasks, seq, writer, wtasks, wseq, open, req, row, nreq, issued, removed>>

\* ------------------------------------------------ update_task_status
update_task_status_connect(c, id, status) ==
  get_db_connection_enter(c, [NoReq EXCEPT !.op = "patch", !.task_id = id, !.status = Some(status)], "check_update")

\* Check if task exists
update_task_status_check(c) ==
  /\ pc[c] = "check_update"
  /\ IF FetchOne(c, req[c].task_id) = None
     THEN /\ resp' = [resp EXCEPT ![c] = NotFound]
          /\ pc' = [pc EXCEPT ![c] = "rollback"]
     ELSE /\ resp' = resp
          /\ pc' = [pc EXCEPT ![c] = "update"]
  /\ UNCHANGED <<tasks, seq, writer, wtasks, wseq, open, req, row, nreq, issued, removed>>

\* (mutant) UPDATE tasks SET status = ? with no WHERE clause
UpdateStatus_all(t, id, status) == [i \in DOMAIN t |-> [t[i] EXCEPT !.status = status]]

\* UPDATE tasks SET status = ? WHERE id = ?
UpdateStatus(t, id, status) ==
  [i \in DOMAIN t |-> IF i = id THEN [t[i] EXCEPT !.status = status] ELSE t[i]]

update_task_status_update(c) ==
  /\ pc[c] = "update"
  /\ CanWrite(c)
  /\ wtasks' = UpdateStatus(View(c), req[c].task_id, req[c].status[1])
  /\ wseq' = ViewSeq(c)
  /\ writer' = c
  /\ pc' = [pc EXCEPT ![c] = "fetch_updated"]
  /\ UNCHANGED <<tasks, seq, open, req, row, resp, nreq, issued, removed>>

\* Fetch updated task; task["id"] on None raises TypeError
update_task_status_fetch(c) ==
  /\ pc[c] = "fetch_updated"
  /\ LET task == FetchOne(c, req[c].task_id)
     IN IF task = None
        THEN /\ resp' = [resp EXCEPT ![c] = [NoResp EXCEPT !.code = 500, !.fault = "TypeError"]]
             /\ pc' = [pc EXCEPT ![c] = "rollback"]
        ELSE /\ resp' = [resp EXCEPT ![c] = [NoResp EXCEPT !.code = 200, !.task = task]]
             /\ pc' = [pc EXCEPT ![c] = "commit"]
  /\ UNCHANGED <<tasks, seq, writer, wtasks, wseq, open, req, row, nreq, issued, removed>>

\* ------------------------------------------------------- delete_task
delete_task_connect(c, id) == get_db_connection_enter(c, [NoReq EXCEPT !.op = "delete", !.task_id = id], "check_delete")

\* (mutant) delete_task without its existence check
delete_task_check_skipped(c) ==
  /\ pc[c] = "check_delete"
  /\ pc' = [pc EXCEPT ![c] = "delete"]
  /\ UNCHANGED <<tasks, seq, writer, wtasks, wseq, open, req, row, resp, nreq, issued, removed>>

\* Check if task exists
delete_task_check(c) ==
  /\ pc[c] = "check_delete"
  /\ IF FetchOne(c, req[c].task_id) = None
     THEN /\ resp' = [resp EXCEPT ![c] = NotFound]
          /\ pc' = [pc EXCEPT ![c] = "rollback"]
     ELSE /\ resp' = resp
          /\ pc' = [pc EXCEPT ![c] = "delete"]
  /\ UNCHANGED <<tasks, seq, writer, wtasks, wseq, open, req, row, nreq, issued, removed>>

\* (mutant) a DELETE whose WHERE clause matches no row
DeleteRow_none(t, id) == t

\* DELETE FROM tasks WHERE id = ?
DeleteRow(t, id) == [i \in DOMAIN t \ {id} |-> t[i]]

delete_task_delete(c) ==
  /\ pc[c] = "delete"
  /\ CanWrite(c)
  /\ wtasks' = DeleteRow(View(c), req[c].task_id)
  /\ wseq' = ViewSeq(c)
  /\ writer' = c
  /\ resp' = [resp EXCEPT ![c] = [NoResp EXCEPT !.code = 200, !.detail = "Task deleted successfully"]]
  /\ pc' = [pc EXCEPT ![c] = "commit"]
  /\ UNCHANGED <<tasks, seq, open, req, row, nreq, issued, removed>>

\* --------------------------------------------------------------- spec
Next ==
  \E c \in Clients :
    \/ \E body \in Bodies : create_task_invalid(c, body)
    \/ \E body \in Bodies : create_task_connect(c, body)
    \/ create_task_insert(c)
    \/ create_task_fetch(c)
    \/ get_tasks_connect(c)
    \/ get_tasks_select(c)
    \/ \E id \in Ids : get_task_connect(c, id)
    \/ get_task_select(c)
    \/ \E id \in Ids, status \in Statuses : update_task_status_connect(c, id, status)
    \/ update_task_status_check(c)
    \/ update_task_status_update(c)
    \/ update_task_status_fetch(c)
    \/ \E id \in Ids : delete_task_connect(c, id)
    \/ delete_task_check(c)
    \/ delete_task_delete(c)
    \/ Busy(c)
    \/ get_db_connection_commit(c)
    \/ get_db_connection_rollback(c)

Spec == Init /\ [][Next]_vars

\* ------------------------------------------------------------ claims
\* The steps the claims speak about, told by the handler's position.
Commits(c, op) == pc[c] = "commit" /\ pc'[c] = "idle" /\ req[c].op = op
Runs(c, at) == pc[c] = at /\ pc'[c] # at
Returning(c, op) == pc[c] \in {"commit", "rollback"} /\ req[c].op = op
Stored == issued \ removed

\* C1: the id a successful create returns is greater than (and so differs
\* from) every id an earlier create returned, deleted or not.
C1_FreshId ==
  [][\A c \in Clients :
       Commits(c, "create") =>
         /\ resp[c].code = 200
         /\ \A i \in issued : i < resp[c].task[1].id]_vars

\* a create that follows the deletion of the newest task, about to return id 2
C1_Witness ==
  \E c \in Clients :
    /\ Returning(c, "create") /\ resp[c].code = 200
    /\ resp[c].task[1].id = 2
    /\ 1 \in removed

C3_UpdateStatus ==
  [][\A c \in Clients :
       Commits(c, "patch") =>
         LET id == req[c].task_id
         IN /\ resp[c].code = 200
            /\ id \in DOMAIN tasks
            /\ DOMAIN tasks' = DOMAIN tasks
            /\ seq' = seq
            /\ \A i \in DOMAIN tasks \ {id} : tasks'[i] = tasks[i]
            /\ tasks'[id].status = req[c].status[1]
            /\ tasks'[id].title = tasks[id].title
            /\ tasks'[id].description = tasks[id].description
            /\ tasks'[id].due_date = tasks[id].due_date
            /\ resp[c].task = Some([id |-> id, title |-> tasks'[id].title,
                                   description |-> tasks'[id].description,
                                   due_date |-> tasks'[id].due_date,
                                   status |-> tasks'[id].status])]_vars

\* a PATCH about to return, having changed the status of one of two tasks
C3_Witness ==
  \E c \in Clients :
    /\ Returning(c, "patch") /\ resp[c].code = 200
    /\ Cardinality(DOMAIN tasks) = 2
    /\ req[c].task_id \in DOMAIN tasks
    /\ tasks[req[c].task_id].status # req[c].status[1]

\* C4: a create stores and returns the supplied title, description, status
\* and due_date, with "Pending" for an omitted status and None for an omitted
\* description or due_date; one row is added and no other row changes.
C4_Create ==
  [][\A c \in Clients :
       Commits(c, "create") =>
         LET body == req[c].body[1]
             task == resp[c].task[1]
         IN /\ resp[c].code = 200
            /\ task.id \notin DOMAIN tasks
            /\ DOMAIN tasks' = DOMAIN tasks \cup {task.id}
            /\ \A i \in DOMAIN tasks : tasks'[i] = tasks[i]
            /\ task.title = body.title[1]
            /\ task.description = body.description
            /\ task.due_date = body.due_date
            /\ task.status = IF body.status = None THEN "Pending" ELSE body.status[1]
            /\ tasks'[task.id] = [title |-> task.title, description |-> task.description,
                                  status |-> task.status, due_date |-> task.due_date]]_vars

\* a create with a title only, about to return, beside a stored task
C4_Witness ==
  \E c \in Clients :
    /\ Returning(c, "create") /\ resp[c].code = 200
    /\ req[c].body[1].status = None
    /\ resp[c].task[1].status = "Pending"
    /\ resp[c].task[1].description = None
    /\ tasks # <<>>

\* C5: GET /api/tasks returns the tasks created and not deleted, each once,
\* by id descending; none stored gives the empty list.
C5_GetTasks ==
  [][\A c \in Clients :
       Runs(c, "select_all") =>
         LET list == resp'[c].list
         IN /\ resp'[c].code = 200
            /\ Len(list) = Cardinality(Stored)
            /\ {list[i].id : i \in 1..Len(list)} = Stored
            /\ \A i, j \in 1..Len(list) : i < j => list[i].id > list[j].id
            /\ \A i \in 1..Len(list) :
                 /\ list[i].title = tasks[list[i].id].title
                 /\ list[i].description = tasks[list[i].id].description
                 /\ list[i].due_date = tasks[list[i].id].due_date
                 /\ list[i].status = tasks[list[i].id].status]_vars

\* a list of two tasks about to be returned
C5_Witness ==
  \E c \in Clients :
    /\ Returning(c, "list") /\ resp[c].code = 200
    /\ Len(resp[c].list) = 2

\* C6: PATCH and DELETE of an id that is not stored raise 404 "Task not
\* found" and leave the rows and the id counter as they were.
C6_NotFound ==
  [][\A c \in Clients :
       /\ (Runs(c, "check_update") \/ Runs(c, "check_delete")) /\ req[c].task_id \notin DOMAIN tasks
            => /\ resp'[c].code = 404
               /\ resp'[c].detail = "Task not found"
               /\ pc'[c] = "rollback"
               /\ UNCHANGED <<tasks, seq, wtasks, wseq, writer>>
       /\ pc[c] = "rollback" /\ pc'[c] = "idle" /\ req[c].op \in {"patch", "delete"} /\ resp[c].code = 404
            => UNCHANGED <<tasks, seq, wtasks, wseq, writer>>]_vars

\* a DELETE or PATCH answering 404 while a task is stored
C6_Witness ==
  \E c \in Clients :
    /\ pc[c] = "rollback" /\ req[c].op \in {"patch", "delete"}
    /\ resp[c].code = 404
    /\ tasks # <<>>

\* C7: a DELETE answers "Task deleted successfully" only if it removed the
\* row itself, so of several DELETEs of one id at most one answers success.
C7_DeleteOnce ==
  [][\A c \in Clients :
       Commits(c, "delete") /\ resp[c].detail = "Task deleted successfully" =>
         /\ req[c].task_id \in DOMAIN tasks
         /\ req[c].task_id \notin DOMAIN tasks'
         /\ req[c].task_id \notin removed]_vars

\* C8: a PATCH ends in 404 "Task not found" or in 200 with the task carrying
\* the requested status, and in no unhandled fault (the storage errors of
\* the lock wait set aside).
C8_PatchOutcome ==
  \A c \in Clients :
    Returning(c, "patch") /\ resp[c].fault # "OperationalError" =>
      \/ resp[c].code = 404 /\ resp[c].detail = "Task not found"
      \/ /\ resp[c].code = 200
         /\ resp[c].task # None
         /\ resp[c].task[1].status = req[c].status[1]

\* C9: every stored task has a non-empty title.
C9_TitleNonEmpty == \A i \in DOMAIN tasks : tasks[i].title # ""

\* C10: a handler holds exactly one connection while it runs and none once it
\* has exited; a normal exit publishes its pending changes, an exit by
\* exception discards them, and either ends its transaction.
C10_Connection ==
  [][\A c \in Clients :
       /\ pc'[c] = "idle" => open'[c] = 0 /\ writer' # c
       /\ pc'[c] # "idle" => open'[c] = 1
       /\ pc[c] = "commit" /\ pc'[c] = "idle" =>
            /\ tasks' = (IF writer = c THEN wtasks ELSE tasks)
            /\ seq' = (IF writer = c THEN wseq ELSE seq)
       /\ pc[c] = "rollback" /\ pc'[c] = "idle" => tasks' = tasks /\ seq' = seq]_vars

\* a handler leaving by exception with its transaction open, beside a free
\* worker holding no connection
C10_Witness ==
  \E c, d \in Clients :
    /\ pc[c] = "rollback" /\ writer = c /\ open[c] = 1
    /\ pc[d] = "idle" /\ open[d] = 0

====
